---- MODULE Spec2Model ----
(***************************************************************************)
(* Model of vod_converter/tsinghua_daimler.py: TsinghuaDaimlerIngestor.    *)
(*                                                                         *)
(* Three entry points are modelled, each with its own specification:       *)
(*   SpecValidate  validate(path)                                          *)
(*   Spec          ingest(path): _get_image_ids, then one                  *)
(*                 _get_image_detection per (sub_dir, image_id)            *)
(*   SpecDetect    _get_image_detection on one image and one label file,   *)
(*                 step by step (_image_dimensions, _get_detections, the   *)
(*                 filter, the record)                                     *)
(* Strings that the code slices are sequences of one-character strings.    *)
(* Coordinates are integers; float() is exact on every integer below 2^53  *)
(* in magnitude, which covers the modelled range, and raises on a value    *)
(* that is not a number.                                                   *)
(***************************************************************************)
EXTENDS Integers, Sequences, FiniteSets, TLC

VARIABLES
    pc,          \* position of the running entry point
    dirs,        \* the expected subdirectories that exist under the root
    vi,          \* validate: index of the subdir the loop is at
    vret,        \* validate: the returned pair
    indexFile,   \* split -> index file {split}.txt (or Missing)
    images,      \* <<split, image_id>> -> image file, as far as it was opened
    labels,      \* <<split, image_id>> -> label file, as far as it was opened
    idsRet,      \* ingest: sub_dir_with_image_ids
    si,          \* ingest: index into sub_dir_with_image_ids
    ii,          \* ingest: index into image_ids of the current sub_dir
    results,     \* ingest: results
    ret,         \* ingest: the returned list (NoReturn until it returns)
    dims,        \* _get_image_detection: (image_width, image_height)
    detections,  \* _get_image_detection: detections
    record       \* _get_image_detection: the returned dict

vars == <<pc, dirs, vi, vret, indexFile, images, labels, idsRet, si, ii,
          results, ret, dims, detections, record>>

----------------------------------------------------------------------------
(* Bounds of the model *)

MaxLines == 2     \* lines of an index file
MaxBoxes == 2     \* entries of children in a label file with several boxes
MaxDim   == 2     \* image width and height range over 1..MaxDim

----------------------------------------------------------------------------
(* Values *)

None == "None"

sub_dirs == <<"train", "valid", "test">>

Splits == {sub_dirs[k] : k \in 1..Len(sub_dirs)}

\* The expected subdirectories grouped by kind instead of by split.
expected_dirs_by_kind ==
    << "labelData/train/tsinghuaDaimlerDataset",
       "labelData/valid/tsinghuaDaimlerDataset",
       "labelData/test/tsinghuaDaimlerDataset",
       "leftImg8bit/train/tsinghuaDaimlerDataset",
       "leftImg8bit/valid/tsinghuaDaimlerDataset",
       "leftImg8bit/test/tsinghuaDaimlerDataset" >>

expected_dirs ==
    << "labelData/train/tsinghuaDaimlerDataset",
       "leftImg8bit/train/tsinghuaDaimlerDataset",
       "labelData/valid/tsinghuaDaimlerDataset",
       "leftImg8bit/valid/tsinghuaDaimlerDataset",
       "labelData/test/tsinghuaDaimlerDataset",
       "leftImg8bit/test/tsinghuaDaimlerDataset" >>

ExpectedDirSet == {expected_dirs[k] : k \in 1..Len(expected_dirs)}

----------------------------------------------------------------------------
(* validate(path) *)

\* os.path.isdir(f"{path}/{subdir}")
IsDir(subdir) == subdir \in dirs

\* The value validate returns when subdir is missing
\* (the message is modelled by the subdir it names)
ValidateFail(subdir) == <<FALSE, subdir>>

\* One iteration of "for subdir in expected_dirs".
ValidateStep ==
    /\ pc = "validate"
    /\ vi <= Len(expected_dirs)
    /\ IF ~IsDir(expected_dirs[vi])
          THEN /\ vret' = ValidateFail(expected_dirs[vi])
               /\ pc' = "validated"
               /\ vi' = vi
          ELSE /\ vi' = vi + 1
               /\ UNCHANGED <<vret, pc>>
    /\ UNCHANGED <<dirs, indexFile, images, labels, idsRet, si, ii, results,
                   ret, dims, detections, record>>

\* The loop ran out: return True, None.
ValidateReturn ==
    /\ pc = "validate"
    /\ vi > Len(expected_dirs)
    /\ vret' = <<TRUE, None>>
    /\ pc' = "validated"
    /\ UNCHANGED <<dirs, vi, indexFile, images, labels, idsRet, si, ii,
                   results, ret, dims, detections, record>>

----------------------------------------------------------------------------
(* Strings *)

Suffix == <<"_", "l", "e", "f", "t", "I", "m", "g", "8", "b", "i", "t">>

Whitespace == {" ", "\n", "\t", "\r"}

\* The text as it is: strip() left out.
StripNothing(s) == s

\* str.strip(): drop the whitespace at both ends.
Strip(s) ==
    LET keep == {k \in 1..Len(s) : s[k] \notin Whitespace}
    IN  IF keep = {} THEN <<>>
        ELSE LET first == CHOOSE k \in keep : \A m \in keep : k <= m
                 last  == CHOOSE k \in keep : \A m \in keep : m <= k
             IN  SubSeq(s, first, last)

\* str.split('\n'): the pieces between the newlines (one piece, the string
\* itself, when there is none: ''.split('\n') is ['']).
RECURSIVE Split(_)
Split(s) ==
    LET nl == {k \in 1..Len(s) : s[k] = "\n"}
    IN  IF nl = {} THEN <<s>>
        ELSE LET k == CHOOSE m \in nl : \A n \in nl : m <= n
             IN  <<SubSeq(s, 1, k - 1)>> \o Split(SubSeq(s, k + 1, Len(s)))

\* The suffix removed only where the line ends in it.
DropSuffixIfPresent(line) ==
    IF /\ Len(line) >= Len(Suffix)
       /\ SubSeq(line, Len(line) - Len(Suffix) + 1, Len(line)) = Suffix
       THEN SubSeq(line, 1, Len(line) - Len(Suffix))
       ELSE line

\* image_ids[i][:-len('_leftImg8bit')]
DropSuffix(line) == SubSeq(line, 1, Len(line) - Len(Suffix))

\* An index file as it is on disk: absent, or its text, given by the lines
\* it lists and the whitespace before the first and after the last of them.
ReadText(file) ==
    LET RECURSIVE Join(_)
        Join(ls) == IF ls = <<>> THEN <<>>
                    ELSE IF Len(ls) = 1 THEN ls[1]
                    ELSE ls[1] \o <<"\n">> \o Join(Tail(ls))
    IN  file.lead \o Join(file.lines) \o file.trail

\* The image_ids of one index file: f.read().strip().split('\n'), each
\* entry cut by the length of the suffix.
ImageIdsOf(text) ==
    LET pieces == Split(Strip(text))
    IN  [k \in 1..Len(pieces) |-> DropSuffix(pieces[k])]

\* _get_image_ids(root): a raise when an index file cannot be opened,
\* otherwise one (sub_dir, image_ids) pair per sub_dir, in order.
GetImageIds(files) ==
    IF \E k \in 1..Len(sub_dirs) : ~files[sub_dirs[k]].exists
       THEN [ok |-> FALSE, value |-> <<>>]
       ELSE [ok |-> TRUE,
             value |-> [k \in 1..Len(sub_dirs) |->
                          <<sub_dirs[k], ImageIdsOf(ReadText(files[sub_dirs[k]]))>>]]

----------------------------------------------------------------------------
(* Label files and detections *)

JNum(n) == [isnum |-> TRUE, v |-> n]
JNull   == [isnum |-> FALSE, v |-> 0]

\* float(x): the number, or a raise on a value that is not one.
CanFloat(j) == j.isnum
Float(j) == j.v

\* max_col and max_row clamped to the size instead of size - 1.
ClampBoxToSize(box, image_width, image_height) ==
    LET min_col == Float(box.mincol)
        max_col == Float(box.maxcol)
        min_row == Float(box.minrow)
        max_row == Float(box.maxrow)
    IN  [label  |-> box.identity,
         left   |-> IF min_col < 0 THEN 0 ELSE min_col,
         right  |-> IF max_col >= image_width THEN image_width ELSE max_col,
         top    |-> IF min_row < 0 THEN 0 ELSE min_row,
         bottom |-> IF max_row >= image_height THEN image_height ELSE max_row]

\* max_col and max_row clamped only when strictly beyond the size.
ClampBoxStrict(box, image_width, image_height) ==
    LET min_col == Float(box.mincol)
        max_col == Float(box.maxcol)
        min_row == Float(box.minrow)
        max_row == Float(box.maxrow)
    IN  [label  |-> box.identity,
         left   |-> IF min_col < 0 THEN 0 ELSE min_col,
         right  |-> IF max_col > image_width THEN image_width - 1 ELSE max_col,
         top    |-> IF min_row < 0 THEN 0 ELSE min_row,
         bottom |-> IF max_row > image_height THEN image_height - 1 ELSE max_row]

\* Width and height taken for each other.
ClampBoxSwapped(box, image_width, image_height) ==
    LET min_col == Float(box.mincol)
        max_col == Float(box.maxcol)
        min_row == Float(box.minrow)
        max_row == Float(box.maxrow)
    IN  [label  |-> box.identity,
         left   |-> IF min_col < 0 THEN 0 ELSE min_col,
         right  |-> IF max_col >= image_height THEN image_height - 1 ELSE max_col,
         top    |-> IF min_row < 0 THEN 0 ELSE min_row,
         bottom |-> IF max_row >= image_width THEN image_width - 1 ELSE max_row]

\* The body of "for box in f_json['children']" for one box.
ClampBox(box, image_width, image_height) ==
    LET min_col == Float(box.mincol)
        max_col == Float(box.maxcol)
        min_row == Float(box.minrow)
        max_row == Float(box.maxrow)
    IN  [label  |-> box.identity,
         left   |-> IF min_col < 0 THEN 0 ELSE min_col,
         right  |-> IF max_col >= image_width THEN image_width - 1 ELSE max_col,
         top    |-> IF min_row < 0 THEN 0 ELSE min_row,
         bottom |-> IF max_row >= image_height THEN image_height - 1 ELSE max_row]

BoxIsNumeric(box) ==
    /\ CanFloat(box.mincol) /\ CanFloat(box.maxcol)
    /\ CanFloat(box.minrow) /\ CanFloat(box.maxrow)

\* _get_detections(detections_fpath, image_width, image_height): a raise when
\* the file is absent, is not JSON, has no children key or holds a coordinate
\* float() rejects; otherwise one detection per box, in order.
GetDetections(file, image_width, image_height) ==
    IF \/ file.kind # "object"
       \/ ~file.haschildren
       \/ \E k \in 1..Len(file.children) : ~BoxIsNumeric(file.children[k])
       THEN [ok |-> FALSE, value |-> <<>>]
       ELSE [ok |-> TRUE,
             value |-> [k \in 1..Len(file.children) |->
                          ClampBox(file.children[k], image_width, image_height)]]

\* The rows left unchecked.
KeepDetectionColsOnly(det) == det.left < det.right

\* Boxes of no width or height kept.
KeepDetectionLoose(det) == det.left <= det.right /\ det.top <= det.bottom

\* The condition of the list comprehension in _get_image_detection.
KeepDetection(det) == det.left < det.right /\ det.top < det.bottom

\* [det for det in detections if ...]
RECURSIVE FilterDetections(_)
FilterDetections(dets) ==
    IF dets = <<>> THEN <<>>
    ELSE IF KeepDetection(Head(dets))
         THEN <<Head(dets)>> \o FilterDetections(Tail(dets))
         ELSE FilterDetections(Tail(dets))

\* The dict _get_image_detection returns (the path is given by sub_dir and
\* image_id, segmented_path is always None).
BuildRecord(sub_dir, image_id, wh, dets) ==
    [image |-> [id |-> image_id, sub_dir |-> sub_dir,
                width |-> wh[1], height |-> wh[2]],
     detections |-> dets]

\* _image_dimensions(path): a raise when the image cannot be opened.
ImageOpens(file) == file.exists
ImageDimensions(file) == <<file.width, file.height>>

\* _get_image_detection(root, sub_dir, image_id) as one call.
GetImageDetection(sub_dir, image_id, image, label) ==
    IF ~ImageOpens(image) THEN [ok |-> FALSE, value |-> <<>>]
    ELSE LET wh   == ImageDimensions(image)
             dets == GetDetections(label, wh[1], wh[2])
         IN  IF ~dets.ok THEN [ok |-> FALSE, value |-> <<>>]
             ELSE [ok |-> TRUE,
                   value |-> <<BuildRecord(sub_dir, image_id, wh,
                                           FilterDetections(dets.value))>>]

----------------------------------------------------------------------------
(* The files the entry points are run on *)

Labels == {"pedestrian", "cyclist"}

NoImage == [exists |-> FALSE, width |-> 0, height |-> 0]
ImageOf(w, h) == [exists |-> TRUE, width |-> w, height |-> h]

NoLabelFile     == [kind |-> "missing", haschildren |-> FALSE, children |-> <<>>]
MalformedLabel  == [kind |-> "malformed", haschildren |-> FALSE, children |-> <<>>]
NoChildrenLabel == [kind |-> "object", haschildren |-> FALSE, children |-> <<>>]
LabelOf(boxes)  == [kind |-> "object", haschildren |-> TRUE, children |-> boxes]

BoxOf(id, c1, r1, c2, r2) ==
    [identity |-> id, mincol |-> JNum(c1), minrow |-> JNum(r1),
     maxcol |-> JNum(c2), maxrow |-> JNum(r2)]

\* A box whose mincol is the JSON null.
NullBox == [identity |-> "pedestrian", mincol |-> JNull, minrow |-> JNum(0),
            maxcol |-> JNum(1), maxrow |-> JNum(1)]

SeqsUpTo(S, n) == UNION {[1..k -> S] : k \in 0..n}

\* Coordinates around an image side of d pixels: below 0, inside, at and
\* beyond d.
Coords(d) == (0 - 1)..(d + 1)

\* Every box over the coordinates around a w x h image.
GridBoxes(w, h) ==
    {BoxOf(id, c1, r1, c2, r2) :
        id \in Labels, c1 \in Coords(w), c2 \in Coords(w),
        r1 \in Coords(h), r2 \in Coords(h)}

\* (min, max) along a side of d pixels: inside, both beyond, max one beyond
\* min at the far edge, and both past the far edge.
EdgePairs(d) == {<<0, d - 1>>, <<0 - 1, d>>, <<d - 1, d>>, <<d, d + 1>>}

\* The boxes that take an edge pair along one side and span the other.
EdgeBoxes(w, h) ==
    {BoxOf(id, c[1], 0 - 1, c[2], h) : id \in Labels, c \in EdgePairs(w)}
    \cup {BoxOf(id, 0 - 1, r[1], w, r[2]) : id \in Labels, r \in EdgePairs(h)}

\* The label files _get_image_detection is run on beside a w x h image:
\* every file of one box of the grid, every file of up to MaxBoxes edge
\* boxes, and the files that make _get_detections raise.
DetectLabelFiles(w, h) ==
    {NoLabelFile, MalformedLabel, NoChildrenLabel,
     LabelOf(<<NullBox>>), LabelOf(<<BoxOf("cyclist", 0, 0, 1, 1), NullBox>>)}
    \cup {LabelOf(<<b>>) : b \in GridBoxes(w, h)}
    \cup {LabelOf(bs) : bs \in SeqsUpTo(EdgeBoxes(w, h), MaxBoxes)}

\* The image and label files ingest may find at a path.
IngestImageFiles == {NoImage, ImageOf(2, 2)}

IngestLabelFiles ==
    {NoLabelFile, MalformedLabel, NoChildrenLabel,
     LabelOf(<<BoxOf("pedestrian", 0 - 1, 0, 2, 1), BoxOf("cyclist", 1, 0, 2, 1)>>)}

Line(id) == id \o Suffix

GoodLines == {Line(<<"a">>), Line(<<"b">>)}

\* Lines as an index file may hold them: well formed, the bare suffix, a
\* file name with its extension, a short name, a blank line.
AnyLines ==
    GoodLines \cup
    {Suffix, Line(<<"a">>) \o <<".", "p", "n", "g">>, <<"a", "b">>, <<>>}

NoIndex == [exists |-> FALSE, lead |-> <<>>, lines |-> <<>>, trail |-> <<>>]
IndexOf(lead, lines, trail) ==
    [exists |-> TRUE, lead |-> lead, lines |-> lines, trail |-> trail]

\* Index files of well-formed lines only, nothing around them.
PlainIndexFiles ==
    {IndexOf(<<>>, ls, <<>>) : ls \in SeqsUpTo(GoodLines, MaxLines)}

\* Index files of any lines, with whitespace before and after. The first
\* and the last line are not blank (a blank one is part of that whitespace).
VariedIndexFiles ==
    {IndexOf(lead, ls, trail) :
        lead \in {<<>>, <<" ">>}, trail \in {<<>>, <<"\n">>},
        ls \in {x \in SeqsUpTo(AnyLines, MaxLines) :
                   Len(x) > 0 => (x[1] # <<>> /\ x[Len(x)] # <<>>)}}

\* The three index files of a root: plain or absent ones, or one varied file
\* beside two one-line files.
IndexFileChoices ==
    [Splits -> PlainIndexFiles \cup {NoIndex}]
    \cup {[s \in Splits |-> IF s = v THEN f
                            ELSE IndexOf(<<>>, <<Line(<<"a">>)>>, <<>>)] :
             v \in Splits, f \in VariedIndexFiles}

----------------------------------------------------------------------------
(* ingest(path) *)

\* What ingest does with the outcome r of one _get_image_detection call:
\* results.append(...), or the exception leaves ingest.
\* (below: a failing image_id skipped instead)
IngestAfterSkipping(r) ==
    /\ results' = IF r.ok THEN results \o r.value ELSE results
    /\ ii' = ii + 1
    /\ pc' = pc

IngestAfter(r) ==
    IF r.ok
       THEN /\ results' = results \o r.value
            /\ ii' = ii + 1
            /\ pc' = pc
       ELSE /\ pc' = "raised"
            /\ UNCHANGED <<results, ii>>

\* sub_dir_with_image_ids = self._get_image_ids(path)
IngestLoadIds ==
    /\ pc = "ingest"
    /\ LET r == GetImageIds(indexFile)
       IN  IF r.ok
              THEN /\ idsRet' = r.value
                   /\ pc' = "loop"
              ELSE /\ pc' = "raised"
                   /\ UNCHANGED idsRet
    /\ UNCHANGED <<dirs, vi, vret, indexFile, images, labels, si, ii, results,
                   ret, dims, detections, record>>

\* One iteration of "for image_id in image_ids". The image and label files
\* of the dataset are fixed when they are first opened: the image first,
\* the label only when the image opened.
IngestStep ==
    /\ pc = "loop"
    /\ si <= Len(idsRet)
    /\ ii <= Len(idsRet[si][2])
    /\ LET sub_dir  == idsRet[si][1]
           image_id == idsRet[si][2][ii]
           p        == <<sub_dir, image_id>>
       IN  \E image \in (IF p \in DOMAIN images THEN {images[p]} ELSE IngestImageFiles) :
           \E label \in (IF p \in DOMAIN labels THEN {labels[p]} ELSE IngestLabelFiles) :
              /\ images' = (p :> image) @@ images
              /\ labels' = IF ImageOpens(image) THEN (p :> label) @@ labels
                                                ELSE labels
              /\ IngestAfter(GetImageDetection(sub_dir, image_id, image, label))
    /\ UNCHANGED <<dirs, vi, vret, indexFile, idsRet, si, ret, dims,
                   detections, record>>

\* The inner loop ran out: the next (sub_dir, image_ids) pair.
IngestNextDir ==
    /\ pc = "loop"
    /\ si <= Len(idsRet)
    /\ ii > Len(idsRet[si][2])
    /\ si' = si + 1
    /\ ii' = 1
    /\ UNCHANGED <<pc, dirs, vi, vret, indexFile, images, labels, idsRet,
                   results, ret, dims, detections, record>>

\* return results
IngestReturn ==
    /\ pc = "loop"
    /\ si > Len(idsRet)
    /\ ret' = [ok |-> TRUE, value |-> results]
    /\ pc' = "returned"
    /\ UNCHANGED <<dirs, vi, vret, indexFile, images, labels, idsRet, si, ii,
                   results, dims, detections, record>>

----------------------------------------------------------------------------
(* _get_image_detection, step by step, on the one path DetectPath *)

DetectPath == <<"train", <<"a">>>>

\* image_width, image_height = _image_dimensions(image_path)
DetectOpenImage ==
    /\ pc = "detect"
    /\ IF ImageOpens(images[DetectPath])
          THEN /\ dims' = ImageDimensions(images[DetectPath])
               /\ pc' = "parse"
          ELSE /\ pc' = "raised"
               /\ UNCHANGED dims
    /\ UNCHANGED <<dirs, vi, vret, indexFile, images, labels, idsRet, si, ii,
                   results, ret, detections, record>>

\* detections = self._get_detections(detections_fpath, ...)
DetectParse ==
    /\ pc = "parse"
    /\ LET r == GetDetections(labels[DetectPath], dims[1], dims[2])
       IN  IF r.ok
              THEN /\ detections' = r.value
                   /\ pc' = "filter"
              ELSE /\ pc' = "raised"
                   /\ UNCHANGED detections
    /\ UNCHANGED <<dirs, vi, vret, indexFile, images, labels, idsRet, si, ii,
                   results, ret, dims, record>>

\* The list comprehension and the returned dict.
DetectBuild ==
    /\ pc = "filter"
    /\ record' = BuildRecord(DetectPath[1], DetectPath[2], dims,
                             FilterDetections(detections))
    /\ pc' = "built"
    /\ UNCHANGED <<dirs, vi, vret, indexFile, images, labels, idsRet, si, ii,
                   results, ret, dims, detections>>

----------------------------------------------------------------------------
(* Specifications *)

NoFiles == [p \in {} |-> NoImage]

InitValidate ==
    /\ pc = "validate"
    /\ dirs \in SUBSET ExpectedDirSet
    /\ vi = 1
    /\ vret = <<FALSE, None>>
    /\ indexFile = [s \in Splits |-> NoIndex]
    /\ images = NoFiles
    /\ labels = NoFiles
    /\ idsRet = <<>>
    /\ si = 1
    /\ ii = 1
    /\ results = <<>>
    /\ ret = [ok |-> FALSE, value |-> <<>>]
    /\ dims = <<0, 0>>
    /\ detections = <<>>
    /\ record = BuildRecord("", <<>>, <<0, 0>>, <<>>)

NextValidate == ValidateStep \/ ValidateReturn

SpecValidate == InitValidate /\ [][NextValidate]_vars

Init ==
    /\ pc = "ingest"
    /\ indexFile \in IndexFileChoices
    /\ dirs = ExpectedDirSet
    /\ vi = 1
    /\ vret = <<FALSE, None>>
    /\ images = NoFiles
    /\ labels = NoFiles
    /\ idsRet = <<>>
    /\ si = 1
    /\ ii = 1
    /\ results = <<>>
    /\ ret = [ok |-> FALSE, value |-> <<>>]
    /\ dims = <<0, 0>>
    /\ detections = <<>>
    /\ record = BuildRecord("", <<>>, <<0, 0>>, <<>>)

Next == IngestLoadIds \/ IngestStep \/ IngestNextDir \/ IngestReturn

Spec == Init /\ [][Next]_vars

InitDetect ==
    /\ pc = "detect"
    /\ \E image \in {NoImage} \cup {ImageOf(w, h) : w \in 1..MaxDim, h \in 1..MaxDim} :
          /\ images = (DetectPath :> image)
          /\ \E label \in (IF image.exists
                              THEN DetectLabelFiles(image.width, image.height)
                              ELSE {NoLabelFile}) :
                labels = (DetectPath :> label)
    /\ dirs = ExpectedDirSet
    /\ vi = 1
    /\ vret = <<FALSE, None>>
    /\ indexFile = [s \in Splits |-> NoIndex]
    /\ idsRet = <<>>
    /\ si = 1
    /\ ii = 1
    /\ results = <<>>
    /\ ret = [ok |-> FALSE, value |-> <<>>]
    /\ dims = <<0, 0>>
    /\ detections = <<>>
    /\ record = BuildRecord("", <<>>, <<0, 0>>, <<>>)

NextDetect == DetectOpenImage \/ DetectParse \/ DetectBuild

SpecDetect == InitDetect /\ [][NextDetect]_vars

----------------------------------------------------------------------------
(* Properties of validate, checked under SpecValidate *)

\* The check order the specification fixes for validate.
CheckOrder ==
    << "labelData/train/tsinghuaDaimlerDataset",
       "leftImg8bit/train/tsinghuaDaimlerDataset",
       "labelData/valid/tsinghuaDaimlerDataset",
       "leftImg8bit/valid/tsinghuaDaimlerDataset",
       "labelData/test/tsinghuaDaimlerDataset",
       "leftImg8bit/test/tsinghuaDaimlerDataset" >>

MissingAt == {k \in 1..Len(CheckOrder) : CheckOrder[k] \notin dirs}

\* C3: validate returns (True, None) exactly when all six subdirectories
\* exist; otherwise it returns (False, message), the message naming the first
\* missing subdirectory in the fixed check order, and it never raises.
C3_ValidateFirstMissing ==
    /\ pc # "raised"
    /\ pc = "validated" =>
          /\ (vret = <<TRUE, None>>) <=> (MissingAt = {})
          /\ MissingAt # {} =>
                \E k \in MissingAt :
                   /\ \A m \in MissingAt : k <= m
                   /\ vret = <<FALSE, CheckOrder[k]>>

\* validate has returned for a root missing labelData/valid and both test
\* directories: the message names labelData/valid.
C3_Witness ==
    /\ pc = "validated"
    /\ MissingAt = {3, 5, 6}
    /\ vret = <<FALSE, "labelData/valid/tsinghuaDaimlerDataset">>

----------------------------------------------------------------------------
(* Properties of _get_image_detection, checked under SpecDetect *)

TheImage == images[DetectPath]
TheChildren == labels[DetectPath].children
Parsed == pc \in {"filter", "built"}

\* C5: _get_detections returns one detection per entry of children, in
\* order, nothing filtered out, each clamped one-sidedly: left = 0 if
\* mincol < 0, right = W-1 if maxcol >= W, top = 0 if minrow < 0,
\* bottom = H-1 if maxrow >= H, every other value and the label unchanged.
C5_ClampedInOrder ==
    Parsed =>
      /\ Len(detections) = Len(TheChildren)
      /\ \A k \in 1..Len(TheChildren) :
           LET box == TheChildren[k]
               W   == TheImage.width
               H   == TheImage.height
           IN  /\ detections[k].label = box.identity
               /\ detections[k].left =
                     (IF box.mincol.v < 0 THEN 0 ELSE box.mincol.v)
               /\ detections[k].right =
                     (IF box.maxcol.v >= W THEN W - 1 ELSE box.maxcol.v)
               /\ detections[k].top =
                     (IF box.minrow.v < 0 THEN 0 ELSE box.minrow.v)
               /\ detections[k].bottom =
                     (IF box.maxrow.v >= H THEN H - 1 ELSE box.maxrow.v)

\* Two boxes were parsed: the first is left of no width and is still listed,
\* the second was clamped on both sides of its columns.
C5_Witness ==
    /\ pc = "filter"
    /\ Len(detections) = 2
    /\ detections[1].left >= detections[1].right
    /\ TheChildren[2].mincol.v < 0
    /\ TheChildren[2].maxcol.v >= TheImage.width
    /\ detections[2].left = 0
    /\ detections[2].right = TheImage.width - 1
    /\ detections[1].label # detections[2].label

\* C6: a box that needs no clamping (mincol >= 0, maxcol < width,
\* minrow >= 0, maxrow < height) gives a detection with the same four
\* numbers and the same label.
C6_RoundTrip ==
    Parsed =>
      \A k \in 1..Len(TheChildren) :
         LET box == TheChildren[k]
         IN  (/\ box.mincol.v >= 0 /\ box.maxcol.v < TheImage.width
              /\ box.minrow.v >= 0 /\ box.maxrow.v < TheImage.height)
             => /\ detections[k].left = box.mincol.v
                /\ detections[k].right = box.maxcol.v
                /\ detections[k].top = box.minrow.v
                /\ detections[k].bottom = box.maxrow.v
                /\ detections[k].label = box.identity

\* A box inside a 2 x 1 image, its maxcol at the last column, was parsed.
C6_Witness ==
    /\ Parsed
    /\ TheImage.width = 2 /\ TheImage.height = 1
    /\ Len(TheChildren) = 1
    /\ TheChildren[1].mincol.v = 0 /\ TheChildren[1].maxcol.v = 1
    /\ TheChildren[1].minrow.v = 0 /\ TheChildren[1].maxrow.v = 0
    /\ detections[1].right = 1

\* The clamped boxes that have left < right and top < bottom.
KeptAt == {k \in 1..Len(detections) :
             /\ detections[k].left < detections[k].right
             /\ detections[k].top < detections[k].bottom}

\* Why _get_image_detection may raise: the image or the label file.
FilesAtFault ==
    \/ ~TheImage.exists
    \/ labels[DetectPath].kind # "object"
    \/ ~labels[DetectPath].haschildren
    \/ \E k \in 1..Len(TheChildren) :
          \E f \in {"mincol", "maxcol", "minrow", "maxrow"} :
             ~TheChildren[k][f].isnum

\* C8: the detections of the record are exactly the clamped boxes with
\* left < right and top < bottom, in their order in children; a box with
\* left >= right or top >= bottom is dropped, and dropping raises nothing.
C8_FilteredSubsequence ==
    /\ pc = "built" =>
          /\ Len(record.detections) = Cardinality(KeptAt)
          /\ \A j \in 1..Len(record.detections) :
                \E k \in KeptAt :
                   /\ Cardinality({m \in KeptAt : m <= k}) = j
                   /\ record.detections[j] = detections[k]
    /\ pc = "raised" => FilesAtFault

\* The record was built from two boxes: the first, clamped to left = right,
\* was dropped (mincol = W-1, maxcol = W), the second was kept.
C8_Witness ==
    /\ pc = "built"
    /\ Len(detections) = 2
    /\ TheChildren[1].mincol.v = TheImage.width - 1
    /\ TheChildren[1].maxcol.v = TheImage.width
    /\ detections[1].left = detections[1].right
    /\ record.detections = <<detections[2]>>

\* C2: every detection of a returned record has left < right and
\* top < bottom.
C2_OrderedSides ==
    pc = "built" =>
       \A j \in 1..Len(record.detections) :
          /\ record.detections[j].left < record.detections[j].right
          /\ record.detections[j].top < record.detections[j].bottom

\* A record with a detection kept, built from a label file that also held a
\* box of no height.
C2_Witness ==
    /\ pc = "built"
    /\ Len(record.detections) = 1
    /\ Len(detections) = 2
    /\ \E k \in 1..2 : /\ detections[k].left < detections[k].right
                       /\ detections[k].top >= detections[k].bottom

\* C10: every detection of a returned record lies inside its image:
\* 0 <= left < right < width and 0 <= top < bottom < height; a box whose
\* mincol or minrow is beyond the image is never among them.
C10_InsideImage ==
    pc = "built" =>
       /\ \A j \in 1..Len(record.detections) :
             LET det == record.detections[j]
             IN  /\ 0 <= det.left /\ det.left < det.right
                 /\ det.right < record.image.width
                 /\ 0 <= det.top /\ det.top < det.bottom
                 /\ det.bottom < record.image.height
       /\ record.image.width = TheImage.width
       /\ record.image.height = TheImage.height
       /\ \A k \in 1..Len(TheChildren) :
             (\/ TheChildren[k].mincol.v >= TheImage.width
              \/ TheChildren[k].minrow.v >= TheImage.height)
             => k \notin KeptAt

\* A record built from a box past the right edge, dropped, and a box
\* reaching over both edges, kept after clamping.
C10_Witness ==
    /\ pc = "built"
    /\ Len(TheChildren) = 2
    /\ TheChildren[1].mincol.v >= TheImage.width
    /\ TheChildren[2].mincol.v < 0
    /\ TheChildren[2].maxcol.v >= TheImage.width
    /\ Len(record.detections) = 1
    /\ record.detections[1].right = TheImage.width - 1

----------------------------------------------------------------------------
(* Properties of ingest and _get_image_ids, checked under Spec *)

\* The order of the splits the specification fixes.
SplitOrder == <<"train", "valid", "test">>

EndsInSuffix(line) ==
    /\ Len(line) >= Len(Suffix)
    /\ \A k \in 1..Len(Suffix) : line[Len(line) - Len(Suffix) + k] = Suffix[k]

\* The identifier a well-formed line lists: the line without its suffix.
Listed(line) == [k \in 1..(Len(line) - Len(Suffix)) |-> line[k]]

LinesOf(s) == indexFile[s].lines

IndexFilesFine ==
    \A s \in Splits :
       /\ indexFile[s].exists
       /\ \A k \in 1..Len(LinesOf(s)) : EndsInSuffix(LinesOf(s)[k])

LabelReadable(file) ==
    /\ file.kind = "object"
    /\ file.haschildren
    /\ \A k \in 1..Len(file.children) :
          \A f \in {"mincol", "maxcol", "minrow", "maxrow"} :
             file.children[k][f].isnum

\* No image or label file of a listed identifier is absent or unreadable.
ListedFilesFine ==
    \A s \in Splits : \A k \in 1..Len(LinesOf(s)) :
       LET p == <<s, Listed(LinesOf(s)[k])>>
       IN  /\ p \in DOMAIN images => images[p].exists
           /\ p \in DOMAIN labels => LabelReadable(labels[p])

\* (split, identifier) of every listed identifier, split by split.
ListedInOrder ==
    LET of(s) == [k \in 1..Len(LinesOf(s)) |-> <<s, Listed(LinesOf(s)[k])>>]
    IN  of(SplitOrder[1]) \o of(SplitOrder[2]) \o of(SplitOrder[3])

ReturnedIds ==
    [k \in 1..Len(ret.value) |->
        <<ret.value[k].image.sub_dir, ret.value[k].image.id>>]

Finished == pc \in {"returned", "raised"}

\* C1: over index files listing N, M and K identifiers, for all N, M,
\* K >= 0, with every listed image and label file present and readable,
\* ingest returns exactly the N+M+K records of the listed identifiers: train,
\* then valid, then test, in index order within each.
C1_OneRecordPerListedId ==
    (Finished /\ IndexFilesFine /\ ListedFilesFine) =>
       /\ pc = "returned"
       /\ ReturnedIds = ListedInOrder

\* The same with at least one identifier listed in every index file.
C1_WhenNoSplitIsEmpty ==
    (Finished /\ IndexFilesFine /\ ListedFilesFine
       /\ \A s \in Splits : Len(LinesOf(s)) >= 1) =>
       /\ pc = "returned"
       /\ ReturnedIds = ListedInOrder

\* The number of image ids _get_image_ids returned.
IdCount ==
    LET RECURSIVE Sum(_)
        Sum(k) == IF k = 0 THEN 0 ELSE Len(idsRet[k][2]) + Sum(k - 1)
    IN  Sum(Len(idsRet))

\* C4: when an index file, or the image or label file of a listed
\* identifier, is absent or unreadable (a label that is not JSON or has no
\* children key included), ingest fails as a whole: it returns no list, no
\* partial one either, and it does not go on past the failing identifier.
C4_FailFast ==
    /\ ret.ok => pc = "returned"
    /\ pc = "raised" => ~ret.ok
    /\ (\E s \in Splits : ~indexFile[s].exists) =>
          (pc \in {"ingest", "raised"} /\ ~ret.ok /\ results = <<>>)
    /\ \A p \in DOMAIN images : ~images[p].exists => pc = "raised"
    /\ \A p \in DOMAIN labels : ~LabelReadable(labels[p]) => pc = "raised"
    /\ ret.ok =>
          /\ Len(ret.value) = IdCount
          /\ \A s \in Splits : \A k \in 1..Len(LinesOf(s)) :
                EndsInSuffix(LinesOf(s)[k]) =>
                   LET p == <<s, Listed(LinesOf(s)[k])>>
                   IN  /\ p \in DOMAIN images /\ images[p].exists
                       /\ p \in DOMAIN labels /\ LabelReadable(labels[p])

\* ingest raised on a label file absent in the valid split, after it had
\* built the records of the train split.
C4_Witness ==
    /\ pc = "raised"
    /\ Len(results) >= 2
    /\ ~ret.ok
    /\ \E p \in DOMAIN labels : p[1] = "valid" /\ labels[p].kind = "missing"

Loaded == idsRet # <<>>

Past(k, j) ==
    \/ pc = "returned"
    \/ pc = "loop" /\ (si > k \/ (si = k /\ ii > j))

\* C9: the suffix is never checked: a line that does not end in
\* _leftImg8bit makes nothing fail and yields the line without its last 12
\* characters, the empty string for a line of 12 characters or fewer, and
\* ingest goes on with that identifier.
C9_BlindTruncation ==
    /\ (pc # "ingest" /\ \A s \in Splits : indexFile[s].exists) => Loaded
    /\ Loaded =>
          \A k \in 1..Len(SplitOrder) :
             LET lines == LinesOf(SplitOrder[k])
                 ids   == idsRet[k][2]
             IN  \A j \in 1..Len(lines) :
                    ~EndsInSuffix(lines[j]) =>
                       /\ j <= Len(ids)
                       /\ Len(lines[j]) <= 12 => ids[j] = <<>>
                       /\ Len(lines[j]) > 12 =>
                             /\ Len(ids[j]) = Len(lines[j]) - 12
                             /\ \A c \in 1..Len(ids[j]) : ids[j][c] = lines[j][c]
                       /\ Past(k, j) =>
                             /\ <<SplitOrder[k], ids[j]>> \in DOMAIN images
                             /\ \E r \in 1..Len(results) :
                                   /\ results[r].image.id = ids[j]
                                   /\ results[r].image.sub_dir = SplitOrder[k]

\* ingest returned records for a test.txt listing a_leftImg8bit.png and ab:
\* image ids a_lef and the empty string.
C9_Witness ==
    /\ pc = "returned"
    /\ Len(LinesOf("test")) = 2
    /\ Len(LinesOf("test")[1]) > 12 /\ ~EndsInSuffix(LinesOf("test")[1])
    /\ LinesOf("test")[2] = <<"a", "b">>
    /\ idsRet[3][2] = <<<<"a", "_", "l", "e", "f">>, <<>>>>
    /\ Len(ret.value) = 4
    /\ ret.value[3].image.id = <<"a", "_", "l", "e", "f">>
    /\ ret.value[4].image.id = <<>>

====
